---------------------------- MODULE Spec2Model ----------------------------
(***************************************************************************)
(* A model of the geohazards agent (src/src/index.ts): six entrypoints     *)
(* that build queries for two upstream JSON services (USGS earthquakes,    *)
(* USGS volcanoes), await the responses and shape an output object.        *)
(*                                                                         *)
(* JavaScript values are modelled as follows.                              *)
(*   - A value that may be undefined is a sequence of length at most one:  *)
(*     <<>> is undefined, <<v>> is the value v.                            *)
(*   - A string is a sequence of one-character strings.                    *)
(*   - A number that the code only passes through is an integer            *)
(*     (magnitudes are in tenths, times in days).                          *)
(*   - The doubles of the haversine computation are fixed-point numbers    *)
(*     with Scale units per 1.0, every product rounded to the nearest      *)
(*     unit; NaN is the empty sequence <<>>.  Distances are in metres      *)
(*     (thousandths of a km), <<>> when NaN.                               *)
(***************************************************************************)
EXTENDS Integers, Sequences, FiniteSets, TLC

VARIABLES
    op,        \* the entrypoint whose handler is running, or "idle"
    request,   \* the input as the caller sent it
    input,     \* ctx.input as the handler sees it (after the zod defaults)
    now,       \* new Date() taken by the handler, in days
    queries,   \* the outbound requests issued so far, in order of issue
    fetches,   \* the fetchJSON promise of each outbound request
    settled,   \* the requests in the order their promises settled
    locals,    \* the handler's local constants of interest, once computed
    result     \* what the handler returned or threw

vars == <<op, request, input, now, queries, fetches, settled, locals, result>>

---------------------------------------------------------------------------
(* Optional values                                                         *)

None == <<>>

Some(v) == <<v>>

IsDef(o) == o # None

Val(o) == o[1]

---------------------------------------------------------------------------
(* Fixed-point arithmetic standing for the doubles of haversine            *)

\* Units per 1.0: the precision of the arithmetic.
Scale == 10000

\* x / Scale rounded to the nearest unit (half away from zero).
RoundScale(x) ==
    IF x >= 0 THEN (x + Scale \div 2) \div Scale
              ELSE -((-x + Scale \div 2) \div Scale)

\* The rounded product of two fixed-point numbers.
Mul(x, y) == RoundScale(x * y)

\* sin of k half-degrees, k in 0..180, in units of 1/Scale.
SinTable ==
    << 0,
       87, 175, 262, 349, 436, 523, 610, 698, 785, 872,
       958, 1045, 1132, 1219, 1305, 1392, 1478, 1564, 1650, 1736,
       1822, 1908, 1994, 2079, 2164, 2250, 2334, 2419, 2504, 2588,
       2672, 2756, 2840, 2924, 3007, 3090, 3173, 3256, 3338, 3420,
       3502, 3584, 3665, 3746, 3827, 3907, 3987, 4067, 4147, 4226,
       4305, 4384, 4462, 4540, 4617, 4695, 4772, 4848, 4924, 5000,
       5075, 5150, 5225, 5299, 5373, 5446, 5519, 5592, 5664, 5736,
       5807, 5878, 5948, 6018, 6088, 6157, 6225, 6293, 6361, 6428,
       6494, 6561, 6626, 6691, 6756, 6820, 6884, 6947, 7009, 7071,
       7133, 7193, 7254, 7314, 7373, 7431, 7490, 7547, 7604, 7660,
       7716, 7771, 7826, 7880, 7934, 7986, 8039, 8090, 8141, 8192,
       8241, 8290, 8339, 8387, 8434, 8480, 8526, 8572, 8616, 8660,
       8704, 8746, 8788, 8829, 8870, 8910, 8949, 8988, 9026, 9063,
       9100, 9135, 9171, 9205, 9239, 9272, 9304, 9336, 9367, 9397,
       9426, 9455, 9483, 9511, 9537, 9563, 9588, 9613, 9636, 9659,
       9681, 9703, 9724, 9744, 9763, 9781, 9799, 9816, 9833, 9848,
       9863, 9877, 9890, 9903, 9914, 9925, 9936, 9945, 9954, 9962,
       9969, 9976, 9981, 9986, 9990, 9994, 9997, 9998, 10000, 10000 >>

\* sin of k half-degrees for k in 0..180.
SinHalfDeg(k) == SinTable[k + 1]

\* Math.sin(toRad(d) / 2) for a difference d of whole degrees, |d| <= 360.
SinHalfAngle(d) ==
    LET k == IF d < 0 THEN -d ELSE d
        v == IF k <= 180 THEN SinHalfDeg(k) ELSE SinHalfDeg(360 - k)
    IN  IF d < 0 THEN -v ELSE v

\* Math.cos(toRad(lat)) for a latitude of whole degrees in -90..90.
CosDeg(lat) ==
    LET k == IF lat < 0 THEN -lat ELSE lat
    IN  SinHalfDeg(180 - 2 * k)

RECURSIVE SqrtSearch(_, _, _)
\* The largest r in lo..hi with r * r <= x.
SqrtSearch(x, lo, hi) ==
    IF lo >= hi THEN lo
    ELSE LET mid == (lo + hi + 1) \div 2
         IN  IF mid * mid <= x THEN SqrtSearch(x, mid, hi)
                               ELSE SqrtSearch(x, lo, mid - 1)

\* Math.sqrt of a fixed-point number: NaN for a negative argument.
Sqrt(x) ==
    IF x < 0 THEN None ELSE Some(SqrtSearch(x * Scale, 0, 2 * Scale))

RECURSIVE AtanSearch(_, _, _, _)
\* The number of half-degree steps j in 1..180 whose midpoint angle has a
\* tangent of at most y / x: the half-degree nearest to atan2(y, x).
AtanSearch(y, x, lo, hi) ==
    IF lo >= hi THEN lo
    ELSE LET mid == (lo + hi + 1) \div 2
             below == (SinHalfDeg(mid - 1) + SinHalfDeg(mid)) * x
                        <= y * (SinHalfDeg(181 - mid) + SinHalfDeg(180 - mid))
         IN  IF below THEN AtanSearch(y, x, mid, hi)
                      ELSE AtanSearch(y, x, lo, mid - 1)

\* Math.atan2(y, x) for y, x >= 0, in radians: NaN when either is NaN.
Atan2(y, x) ==
    IF y = None \/ x = None THEN None
    ELSE LET k == AtanSearch(Val(y), Val(x), 0, 180)
         IN  Some((k * 31416 + 180) \div 360)

---------------------------------------------------------------------------
(* The report handler's pure computations                                  *)

\* Earth's radius in km.
R == 6371

\* haversine(lat1, lon1, lat2, lon2): the great-circle distance, in metres.
\* Each argument is a number of whole degrees or <<>> (undefined, which the
\* subtraction turns into NaN); the result is <<>> when it is NaN.
haversine(lat1, lon1, lat2, lon2) ==
    IF lat1 = None \/ lon1 = None \/ lat2 = None \/ lon2 = None THEN None
    ELSE LET dLat == Val(lat2) - Val(lat1)
             dLon == Val(lon2) - Val(lon1)
             a == Mul(SinHalfAngle(dLat), SinHalfAngle(dLat))
                  + Mul(Mul(Mul(CosDeg(Val(lat1)), CosDeg(Val(lat2))),
                            SinHalfAngle(dLon)),
                        SinHalfAngle(dLon))
             c == Atan2(Sqrt(a), Sqrt(Scale - a))
         IN  IF c = None THEN None
             ELSE Some((R * 2 * Val(c) + 5) \div 10)

\* v.distanceKm <= radiusKm, radiusKm in km: false for a NaN distance.
WithinRadius(distanceKm, radiusKm) ==
    IsDef(distanceKm) /\ Val(distanceKm) <= radiusKm * 1000

\* The comparator (a, b) => a.distanceKm - b.distanceKm says a sorts after b.
SortsAfter(a, b) == Val(a.distanceKm) - Val(b.distanceKm) > 0

RECURSIVE InsertSorted(_, _)
\* s with v inserted after every element that does not sort after it.
InsertSorted(s, v) ==
    IF s = <<>> THEN <<v>>
    ELSE IF SortsAfter(s[Len(s)], v)
         THEN Append(InsertSorted(SubSeq(s, 1, Len(s) - 1), v), s[Len(s)])
         ELSE Append(s, v)

RECURSIVE SortByDistance(_)
\* Array.prototype.sort with the distance comparator: a stable sort.
SortByDistance(s) ==
    IF s = <<>> THEN <<>>
    ELSE InsertSorted(SortByDistance(SubSeq(s, 1, Len(s) - 1)), s[Len(s)])

\* Array.prototype.slice(0, n).
Slice(s, n) == SubSeq(s, 1, IF Len(s) < n THEN Len(s) ELSE n)

\* The cap of the nearby-volcano list.
VolcanoCap == 20

\* The cap of the recentEarthquakes preview.
PreviewCap == 15

\* The magnitude, in tenths, from which an event is significant.
SignificantMag == 40

\* volcanoData.map(...): each record with its distance from the centre.
WithDistance(volcanoData, latitude, longitude) ==
    [i \in 1..Len(volcanoData) |->
        [v |-> volcanoData[i],
         distanceKm |-> haversine(Some(latitude), Some(longitude),
                                  volcanoData[i].latitude,
                                  volcanoData[i].longitude)]]

\* .filter(v => v.distanceKm <= radiusKm)
FilterWithin(ranked, radiusKm) ==
    SelectSeq(ranked, LAMBDA v : WithinRadius(v.distanceKm, radiusKm))

\* nearbyVolcanoes with the sort left out: map, filter, slice.
nearbyVolcanoesUnsorted(volcanoData, latitude, longitude, radiusKm) ==
    Slice(FilterWithin(WithDistance(volcanoData, latitude, longitude),
                       radiusKm),
          VolcanoCap)

\* nearbyVolcanoes: map, filter, sort, slice.
nearbyVolcanoes(volcanoData, latitude, longitude, radiusKm) ==
    Slice(SortByDistance(FilterWithin(
              WithDistance(volcanoData, latitude, longitude), radiusKm)),
          VolcanoCap)

\* f.properties.mag >= 4: false for an undefined or null magnitude.
IsSignificant(f) == IsDef(f.mag) /\ Val(f.mag) >= SignificantMag

\* earthquakeData.features.filter(f => f.properties.mag >= 4)
significantQuakes(features) == SelectSeq(features, IsSignificant)

\* riskLevel with >= for > in its first comparison.
riskLevelInclusive(n) ==
    IF n >= 10 THEN "HIGH"
    ELSE IF n > 3 THEN "MODERATE"
    ELSE IF n > 0 THEN "LOW"
    ELSE "MINIMAL"

\* riskLevel as a function of significantQuakes.length.
riskLevel(n) ==
    IF n > 10 THEN "HIGH"
    ELSE IF n > 3 THEN "MODERATE"
    ELSE IF n > 0 THEN "LOW"
    ELSE "MINIMAL"

\* Math.round of a distance in metres, in km.
RoundKm(distanceKm) == (Val(distanceKm) + 500) \div 1000

---------------------------------------------------------------------------
(* Strings                                                                 *)

LowerChar(c) ==
    IF c = "A" THEN "a" ELSE IF c = "B" THEN "b" ELSE c

\* String.prototype.toLowerCase
toLowerCase(s) == [i \in 1..Len(s) |-> LowerChar(s[i])]

\* String.prototype.includes
includes(s, sub) ==
    \E i \in 0..(Len(s) - Len(sub)) : SubSeq(s, i + 1, i + Len(sub)) = sub

\* v.field?.toLowerCase().includes(filter.toLowerCase()), for an optional
\* field: undefined (falsy) when the field is.
FieldIncludes(field, filter) ==
    IsDef(field) /\ includes(toLowerCase(Val(field)), toLowerCase(filter))

---------------------------------------------------------------------------
(* Bounds of the model                                                     *)

\* The longest seismic feature list the upstream returns.
MaxQuakes == 16

\* The longest volcano list the upstream returns.
MaxVolcanoes == 21

\* The longest list enumerated over every record, malformed ones included,
\* in the answers to report and to the seismic listings.
MaxSmall == 1

\* The longest volcano list enumerated over every record in the answers to
\* volcanoSearch.
MaxSearchList == 2

\* The number of placement patterns of the long volcano lists.
MaxPattern == 2

\* The largest count the risk classification is tabulated for.
MaxCount == 60

---------------------------------------------------------------------------
(* What the upstream services may answer                                   *)

\* Every sequence over S of length at most n.
SeqsUpTo(S, n) == UNION {[1..k -> S] : k \in 0..n}

\* A seismic feature: id, properties (present or not) with mag and time,
\* geometry (present or not).
Feature(id, hasProps, mag, time, hasGeom) ==
    [id |-> id, hasProps |-> hasProps, mag |-> mag, time |-> time,
     hasGeom |-> hasGeom]

\* Well-formed features either side of the significance threshold, and one
\* feature for each field the handlers read that may be missing.
Features ==
    { Feature(1, TRUE, Some(39), Some(1), TRUE),
      Feature(2, TRUE, Some(40), Some(2), TRUE),
      Feature(3, TRUE, None, Some(3), TRUE),
      Feature(4, FALSE, None, None, TRUE),
      Feature(5, TRUE, Some(52), None, TRUE),
      Feature(6, TRUE, Some(47), Some(4), FALSE) }

\* The feature list ordered by magnitude: k significant events, then n - k
\* events below the threshold.
LongFeatures(n, k) ==
    [i \in 1..n |->
        Feature(i, TRUE, Some(IF i <= k THEN 45 ELSE 30), Some(i), TRUE)]

\* A seismic response body: metadata.count (or no metadata) and features
\* (or none).
QuakeBody(count, features) == [count |-> count, features |-> features]

SmallQuakeBodies ==
    { QuakeBody(Some(Len(fs)), Some(fs)) : fs \in SeqsUpTo(Features, MaxSmall) }
    \cup { QuakeBody(None, Some(<<>>)), QuakeBody(Some(0), None) }

\* The longest list with k = 4 significant events and the feature at
\* position j replaced by f.
PatchedFeatures(j, f) == [LongFeatures(MaxQuakes, 4) EXCEPT ![j] = f]

\* What the seismic service may answer to report: the short lists, the lists
\* of the two greatest lengths with every number of significant events, and
\* the longest list with its first or last feature replaced.
QuakeBodies ==
    SmallQuakeBodies
    \cup { QuakeBody(Some(n), Some(LongFeatures(n, k))) :
             n \in (MaxQuakes - 1)..MaxQuakes, k \in 0..MaxQuakes }
    \cup { QuakeBody(Some(MaxQuakes), Some(PatchedFeatures(j, f))) :
             j \in {1, MaxQuakes}, f \in Features }

\* A volcano record with the fields the handlers read.
Volcano(vName, country, latitude, longitude) ==
    [vName |-> vName, country |-> country,
     latitude |-> latitude, longitude |-> longitude]

Volcanoes ==
    { Volcano(Some(<<"A", "b">>), Some(<<"a", "B">>), Some(9), Some(0)),
      Volcano(Some(<<"b">>), Some(<<"a", "b">>), Some(8), Some(0)),
      Volcano(Some(<<"a">>), Some(<<"b">>), Some(-8), Some(180)),
      Volcano(Some(<<"b", "a">>), Some(<<"A">>), None, None),
      Volcano(Some(<<"A", "B">>), None, Some(10), Some(0)),
      Volcano(None, Some(<<"B", "a">>), Some(8), Some(3)) }

\* A long volcano list: record i lies (i * p) % 4 degrees north of 8N 0E.
LongVolcanoes(n, p) ==
    [i \in 1..n |->
        Volcano(Some(<<"a">>), Some(<<"b">>), Some(8 + ((i * p) % 4)), Some(0))]

\* A volcano response body: the array, or <<>> for a body that is no array.
\* What the volcano service may answer to report.
VolcanoBodies ==
    { Some(vs) : vs \in SeqsUpTo(Volcanoes, MaxSmall) }
    \cup { Some(LongVolcanoes(n, p)) :
             n \in (MaxVolcanoes - 1)..MaxVolcanoes, p \in 1..MaxPattern }
    \cup { None }

\* What the volcano service may answer to volcanoSearch.
SearchVolcanoBodies ==
    { Some(vs) : vs \in SeqsUpTo(Volcanoes, MaxSearchList) } \cup { None }

---------------------------------------------------------------------------
(* Outbound queries                                                        *)

\* The seismic query string every windowed query starts with:
\* format, starttime, minmagnitude, limit, orderby.
SeismicParams(starttime, minmagnitude, limit, orderby) ==
    ("format" :> "geojson") @@ ("starttime" :> starttime)
    @@ ("minmagnitude" :> minmagnitude) @@ ("limit" :> limit)
    @@ ("orderby" :> orderby)

\* &latitude=..&longitude=..&maxradiuskm=..
SpatialParams(latitude, longitude, radiusKm) ==
    ("latitude" :> latitude) @@ ("longitude" :> longitude)
    @@ ("maxradiuskm" :> radiusKm)

Query(host, params) == [host |-> host, params |-> params]

\* overview: the past 24 hours, M4+, five events, by magnitude.
overviewUrl(t) ==
    Query("earthquake", SeismicParams(t - 1, 40, 5, "magnitude"))

\* lookup: the event id and the format, nothing else.
lookupUrl(eventId) ==
    Query("earthquake", ("eventid" :> eventId) @@ ("format" :> "geojson"))

\* searchUrl with || for && in the test of the coordinates: the spatial
\* filter is attached when either is defined, the other printed as is.
searchUrlEither(in, t) ==
    LET base == SeismicParams(t - in.days, in.minMagnitude, in.limit, "time")
        spatial ==
            IF in.latitude # None \/ in.longitude # None
            THEN base @@ SpatialParams(in.latitude, in.longitude, in.radiusKm)
            ELSE base
    IN  Query("earthquake",
              IF in.maxMagnitude # None
              THEN spatial @@ ("maxmagnitude" :> Val(in.maxMagnitude))
              ELSE spatial)

\* search: the window, then the spatial filter when both latitude and
\* longitude are defined, then maxmagnitude when it is.
searchUrl(in, t) ==
    LET base == SeismicParams(t - in.days, in.minMagnitude, in.limit, "time")
        spatial ==
            IF in.latitude # None /\ in.longitude # None
            THEN base @@ SpatialParams(Val(in.latitude), Val(in.longitude),
                                       in.radiusKm)
            ELSE base
    IN  Query("earthquake",
              IF in.maxMagnitude # None
              THEN spatial @@ ("maxmagnitude" :> Val(in.maxMagnitude))
              ELSE spatial)

\* period === 'day' ? 1 : period === 'week' ? 7 : 30
daysBack(period) ==
    IF period = "day" THEN 1 ELSE IF period = "week" THEN 7 ELSE 30

topUrl(in, t) ==
    Query("earthquake",
          SeismicParams(t - daysBack(in.period), in.minMagnitude, in.limit,
                        "magnitude"))

\* The volcano service takes no parameter.
volcanoUrl == Query("volcano", <<>>)

\* report: the past 30 days around the point, M2+, 50 events, by magnitude.
earthquakeUrl(in, t) ==
    Query("earthquake",
          ("format" :> "geojson") @@ ("starttime" :> t - 30)
          @@ SpatialParams(in.latitude, in.longitude, in.radiusKm)
          @@ ("minmagnitude" :> 20) @@ ("limit" :> 50)
          @@ ("orderby" :> "magnitude"))

---------------------------------------------------------------------------
(* Promises                                                                *)

Pending == [state |-> "pending", value |-> None]

Fulfilled(body) == [state |-> "fulfilled", value |-> Some(body)]

Rejected == [state |-> "rejected", value |-> None]

\* await on one promise, or Promise.all on several, may resume: some promise
\* rejected, or every promise fulfilled.
AwaitReady(fs) ==
    \/ \E i \in 1..Len(fs) : fs[i].state = "rejected"
    \/ \A i \in 1..Len(fs) : fs[i].state = "fulfilled"

\* The await throws: some promise rejected.
AwaitThrows(fs) == \E i \in 1..Len(fs) : fs[i].state = "rejected"

---------------------------------------------------------------------------
(* Handler results                                                         *)

NoResult == [kind |-> "none", error |-> "", output |-> None]

Failure(error) == [kind |-> "error", error |-> error, output |-> None]

Output(o) == [kind |-> "output", error |-> "", output |-> Some(o)]

\* ShapeThrows with the geometry read through optional chaining
\* (f.geometry?.coordinates): a missing geometry no longer throws.
ShapeThrowsOptionalGeometry(f) == ~f.hasProps \/ f.time = None

\* Shaping a feature throws: f.properties is undefined (TypeError),
\* new Date(undefined).toISOString() (RangeError), or f.geometry is
\* undefined (TypeError).
ShapeThrows(f) == ~f.hasProps \/ f.time = None \/ ~f.hasGeom

\* The shaped event of the feature lists.
ShapeQuake(f) == [id |-> f.id, magnitude |-> f.mag, time |-> Val(f.time)]

\* features.map(shape) over a whole list.
ShapeQuakes(fs) == [i \in 1..Len(fs) |-> ShapeQuake(fs[i])]

\* The body is read as { metadata: { count }, features: [...] } and every
\* feature is shaped: overview, search and top.
ListingThrows(body) ==
    \/ body.count = None
    \/ body.features = None
    \/ \E i \in 1..Len(Val(body.features)) : ShapeThrows(Val(body.features)[i])

overviewHandler(body, t) ==
    IF ListingThrows(body) THEN Failure("TypeError")
    ELSE Output([summary |-> Val(body.count),
                 latestQuakes |-> ShapeQuakes(Val(body.features)),
                 fetchedAt |-> t])

\* lookup reads the body as one feature.
lookupHandler(body, t) ==
    IF ShapeThrows(body) THEN Failure("TypeError")
    ELSE Output([id |-> body.id, magnitude |-> body.mag,
                 time |-> Val(body.time), fetchedAt |-> t])

searchHandler(in, body, t) ==
    IF ListingThrows(body) THEN Failure("TypeError")
    ELSE Output([totalFound |-> Val(body.count),
                 searchParams |-> in,
                 earthquakes |-> ShapeQuakes(Val(body.features)),
                 fetchedAt |-> t])

topHandler(in, body, t) ==
    IF ListingThrows(body) THEN Failure("TypeError")
    ELSE Output([period |-> in.period,
                 periodStart |-> t - daysBack(in.period),
                 periodEnd |-> t,
                 totalSignificant |-> Val(body.count),
                 topEarthquakes |-> ShapeQuakes(Val(body.features)),
                 fetchedAt |-> t])

\* if (country) / if (name): an undefined or empty filter is falsy.
Truthy(filter) == filter # None /\ Val(filter) # <<>>

\* filterVolcanoes with the name filter in an else branch: it is skipped
\* when the country filter is applied.
filterVolcanoesElse(data, country, name) ==
    IF Truthy(country)
    THEN SelectSeq(data, LAMBDA v : FieldIncludes(v.country, Val(country)))
    ELSE IF Truthy(name)
         THEN SelectSeq(data, LAMBDA v : FieldIncludes(v.vName, Val(name)))
         ELSE data

\* The two filters of volcanoSearch, each applied only when truthy.
filterVolcanoes(data, country, name) ==
    LET byCountry ==
            IF Truthy(country)
            THEN SelectSeq(data,
                           LAMBDA v : FieldIncludes(v.country, Val(country)))
            ELSE data
    IN  IF Truthy(name)
        THEN SelectSeq(byCountry, LAMBDA v : FieldIncludes(v.vName, Val(name)))
        ELSE byCountry

ShapeVolcano(v) ==
    [name |-> v.vName, country |-> v.country,
     coordinates |-> [latitude |-> v.latitude, longitude |-> v.longitude]]

\* volcanoSearch: a body that is no array has no filter and no slice.
volcanoSearchHandler(in, body, t) ==
    IF body = None THEN Failure("TypeError")
    ELSE LET filtered == filterVolcanoes(Val(body), in.country, in.name)
             results == Slice(filtered, in.limit)
         IN  Output([totalMatches |-> Len(filtered),
                     returned |-> Len(results),
                     searchParams |-> [country |-> in.country, name |-> in.name],
                     volcanoes |-> [i \in 1..Len(results) |->
                                       ShapeVolcano(results[i])],
                     fetchedAt |-> t])

\* What the report handler reads that may be missing: volcanoData.map,
\* earthquakeData.features, f.properties of every feature, metadata.count,
\* and the shape of each feature of the preview.
ReportThrows(earthquakeData, volcanoData) ==
    \/ volcanoData = None
    \/ earthquakeData.features = None
    \/ \E i \in 1..Len(Val(earthquakeData.features)) :
          ~Val(earthquakeData.features)[i].hasProps
    \/ earthquakeData.count = None
    \/ \E i \in 1..Len(Slice(Val(earthquakeData.features), PreviewCap)) :
          ShapeThrows(Val(earthquakeData.features)[i])

\* reportLocals with the significant events counted in the preview (the
\* first 15 features) instead of the whole list.
reportLocalsOfPreview(in, earthquakeData, volcanoData) ==
    LET nearby == nearbyVolcanoes(Val(volcanoData), in.latitude, in.longitude,
                                  in.radiusKm)
        sig == significantQuakes(Slice(Val(earthquakeData.features),
                                       PreviewCap))
    IN  [nearbyVolcanoes |-> nearby,
         significantQuakes |-> sig,
         riskLevel |-> riskLevel(Len(sig))]

\* The local constants of the report handler.
reportLocals(in, earthquakeData, volcanoData) ==
    LET nearby == nearbyVolcanoes(Val(volcanoData), in.latitude, in.longitude,
                                  in.radiusKm)
        sig == significantQuakes(Val(earthquakeData.features))
    IN  [nearbyVolcanoes |-> nearby,
         significantQuakes |-> sig,
         riskLevel |-> riskLevel(Len(sig))]

\* The output object of the report handler.
reportOutput(in, earthquakeData, loc, t) ==
    [location |-> [latitude |-> in.latitude, longitude |-> in.longitude],
     radiusKm |-> in.radiusKm,
     riskAssessment |->
        [level |-> loc.riskLevel,
         earthquakesLast30Days |-> Val(earthquakeData.count),
         significantQuakes |-> Len(loc.significantQuakes),
         nearbyVolcanoes |-> Len(loc.nearbyVolcanoes)],
     recentEarthquakes |->
        ShapeQuakes(Slice(Val(earthquakeData.features), PreviewCap)),
     nearbyVolcanoes |->
        [i \in 1..Len(loc.nearbyVolcanoes) |->
            [name |-> loc.nearbyVolcanoes[i].v.vName,
             country |-> loc.nearbyVolcanoes[i].v.country,
             distanceKm |-> RoundKm(loc.nearbyVolcanoes[i].distanceKm)]],
     fetchedAt |-> t]

\* The report handler from the two bodies on: the result, and the local
\* constants when it returns one.
reportBody(in, earthquakeData, volcanoData, t) ==
    IF ReportThrows(earthquakeData, volcanoData)
    THEN [result |-> Failure("TypeError"), locals |-> None]
    ELSE LET loc == reportLocals(in, earthquakeData, volcanoData)
         IN  [result |-> Output(reportOutput(in, earthquakeData, loc, t)),
              locals |-> Some(loc)]

\* reportHandler with Promise.allSettled semantics for the volcano request:
\* a rejected volcano fetch gives a report over no volcano.
reportHandlerPartial(in, fs, t) ==
    IF fs[1].state # "fulfilled"
    THEN [result |-> Failure("UpstreamUnavailable"), locals |-> None]
    ELSE reportBody(in, Val(fs[1].value),
                    IF fs[2].state = "fulfilled" THEN Val(fs[2].value)
                                                 ELSE Some(<<>>),
                    t)

\* The report handler after await Promise.all([...]): the rejection of
\* either promise is thrown; otherwise the bodies are destructured in the
\* order of the requests.
reportHandler(in, fs, t) ==
    IF AwaitThrows(fs)
    THEN [result |-> Failure("UpstreamUnavailable"), locals |-> None]
    ELSE reportBody(in, Val(fs[1].value), Val(fs[2].value), t)

\* A handler with one fetch, after its await.
singleHandler(key, in, fs, t) ==
    IF AwaitThrows(fs) THEN Failure("UpstreamUnavailable")
    ELSE LET body == Val(fs[1].value)
         IN  CASE key = "overview" -> overviewHandler(body, t)
               [] key = "lookup" -> lookupHandler(body, t)
               [] key = "search" -> searchHandler(in, body, t)
               [] key = "top" -> topHandler(in, body, t)
               [] key = "volcanoSearch" -> volcanoSearchHandler(in, body, t)

-------------------------------------------------------------------------------------------------------------------------------------------------
(* The request cycle                                                       *)

\* z.<type>().optional().default(d)
ZodDefault(raw, d) == IF raw = None THEN d ELSE Val(raw)

\* The input schema of search.
parseSearch(raw) ==
    [latitude |-> raw.latitude,
     longitude |-> raw.longitude,
     radiusKm |-> ZodDefault(raw.radiusKm, 500),
     minMagnitude |-> ZodDefault(raw.minMagnitude, 40),
     maxMagnitude |-> raw.maxMagnitude,
     days |-> ZodDefault(raw.days, 7),
     limit |-> ZodDefault(raw.limit, 20)]

\* parseTop with the minimum magnitude defaulting to 4, as in search.
parseTopDefault4(raw) ==
    [period |-> ZodDefault(raw.period, "week"),
     minMagnitude |-> ZodDefault(raw.minMagnitude, 40),
     limit |-> ZodDefault(raw.limit, 10)]

\* The input schema of top.
parseTop(raw) ==
    [period |-> ZodDefault(raw.period, "week"),
     minMagnitude |-> ZodDefault(raw.minMagnitude, 50),
     limit |-> ZodDefault(raw.limit, 10)]

\* The input schema of volcanoSearch.
parseVolcanoSearch(raw) ==
    [country |-> raw.country, name |-> raw.name,
     limit |-> ZodDefault(raw.limit, 20)]

\* The input schema of report.
parseReport(raw) ==
    [latitude |-> raw.latitude, longitude |-> raw.longitude,
     radiusKm |-> ZodDefault(raw.radiusKm, 300)]

\* reportRequests with the volcano request left for after the first await.
reportRequestsFirst(in, t) == <<earthquakeUrl(in, t)>>

\* The requests the report handler issues before it awaits: both.
reportRequests(in, t) == <<earthquakeUrl(in, t), volcanoUrl>>

\* The instants new Date() may return, in days.
Nows == {400, 1000}

Init ==
    /\ op = "idle"
    /\ request = None
    /\ input = None
    /\ now = 0
    /\ queries = <<>>
    /\ fetches = <<>>
    /\ settled = <<>>
    /\ locals = None
    /\ result = NoResult

\* The handler runs up to its await: the input, the clock and the requests.
Start(key, raw, in, t, urls) ==
    /\ op' = key
    /\ request' = raw
    /\ input' = in
    /\ now' = t
    /\ queries' = urls
    /\ fetches' = [i \in 1..Len(urls) |-> Pending]
    /\ settled' = <<>>
    /\ locals' = None
    /\ result' = NoResult

InvokeOverview ==
    /\ op = "idle"
    /\ \E t \in Nows : Start("overview", None, None, t, <<overviewUrl(t)>>)

InvokeLookup ==
    /\ op = "idle"
    /\ \E t \in Nows, eventId \in {"us6000s5e4", "nc1"} :
           Start("lookup", [eventId |-> eventId], [eventId |-> eventId], t,
                 <<lookupUrl(eventId)>>)

InvokeSearch ==
    /\ op = "idle"
    /\ \E t \in Nows,
          latitude \in {None, Some(8)},
          longitude \in {None, Some(0)},
          radiusKm \in {None, Some(100)},
          minMagnitude \in {None, Some(0), Some(60)},
          maxMagnitude \in {None, Some(70)},
          days \in {None, Some(1)},
          limit \in {None, Some(5)} :
           LET raw == [latitude |-> latitude, longitude |-> longitude,
                       radiusKm |-> radiusKm, minMagnitude |-> minMagnitude,
                       maxMagnitude |-> maxMagnitude, days |-> days,
                       limit |-> limit]
           IN  Start("search", raw, parseSearch(raw), t,
                     <<searchUrl(parseSearch(raw), t)>>)

InvokeTop ==
    /\ op = "idle"
    /\ \E t \in Nows,
          period \in {None, Some("day"), Some("week"), Some("month")},
          minMagnitude \in {None, Some(65)},
          limit \in {None, Some(3)} :
           LET raw == [period |-> period, minMagnitude |-> minMagnitude,
                       limit |-> limit]
           IN  Start("top", raw, parseTop(raw), t, <<topUrl(parseTop(raw), t)>>)

\* The filters a caller may give: absent, empty, and mixed-case text.
TextFilters == {None, Some(<<>>), Some(<<"a">>), Some(<<"A", "B">>)}

InvokeVolcanoSearch ==
    /\ op = "idle"
    /\ \E t \in Nows,
          country \in TextFilters,
          name \in TextFilters,
          limit \in {None, Some(1)} :
           LET raw == [country |-> country, name |-> name, limit |-> limit]
           IN  Start("volcanoSearch", raw, parseVolcanoSearch(raw), t,
                     <<volcanoUrl>>)

InvokeReport ==
    /\ op = "idle"
    /\ \E t \in Nows,
          radiusKm \in {None, Some(111), Some(1000)} :
           LET raw == [latitude |-> 8, longitude |-> 0, radiusKm |-> radiusKm]
           IN  Start("report", raw, parseReport(raw), t,
                     reportRequests(parseReport(raw), t))

\* The bodies a service may send for the request q of the running handler.
BodiesFor(key, q) ==
    IF q.host = "volcano"
    THEN IF key = "volcanoSearch" THEN SearchVolcanoBodies ELSE VolcanoBodies
    ELSE IF key = "lookup" THEN Features
    ELSE IF key = "report" THEN QuakeBodies
    ELSE SmallQuakeBodies

\* fetchJSON on a response: a non-success status throws, a success status
\* gives the parsed body.
fetchJSON(response) ==
    IF ~response.ok THEN Rejected ELSE Fulfilled(Val(response.body))

Settle(i, promise) ==
    /\ fetches' = [fetches EXCEPT ![i] = promise]
    /\ settled' = Append(settled, i)
    /\ UNCHANGED <<op, request, input, now, queries, locals, result>>

\* The service answers request i, with a success status and a body or with
\* a non-success status.
UpstreamResponds ==
    \E i \in 1..Len(fetches) :
        /\ fetches[i].state = "pending"
        /\ \E response \in
                { [ok |-> TRUE, body |-> Some(b)] : b \in BodiesFor(op, queries[i]) }
                \cup { [ok |-> FALSE, body |-> None] } :
              Settle(i, fetchJSON(response))

\* The transport fails: fetch itself rejects.
TransportFails ==
    \E i \in 1..Len(fetches) :
        /\ fetches[i].state = "pending"
        /\ Settle(i, Rejected)

\* A handler with one request resumes after its await.
Resume ==
    /\ op \in {"overview", "lookup", "search", "top", "volcanoSearch"}
    /\ result.kind = "none"
    /\ AwaitReady(fetches)
    /\ result' = singleHandler(op, input, fetches, now)
    /\ UNCHANGED <<op, request, input, now, queries, fetches, settled, locals>>

\* The report handler resumes after Promise.all.
ResumeReport ==
    /\ op = "report"
    /\ result.kind = "none"
    /\ AwaitReady(fetches)
    /\ result' = reportHandler(input, fetches, now).result
    /\ locals' = reportHandler(input, fetches, now).locals
    /\ UNCHANGED <<op, request, input, now, queries, fetches, settled>>

\* The result goes to the caller and the call is over.
Respond ==
    /\ result.kind # "none"
    /\ op' = "idle"
    /\ request' = None
    /\ input' = None
    /\ now' = 0
    /\ queries' = <<>>
    /\ fetches' = <<>>
    /\ settled' = <<>>
    /\ locals' = None
    /\ result' = NoResult

Next ==
    \/ InvokeOverview
    \/ InvokeLookup
    \/ InvokeSearch
    \/ InvokeTop
    \/ InvokeVolcanoSearch
    \/ InvokeReport
    \/ UpstreamResponds
    \/ TransportFails
    \/ Resume
    \/ ResumeReport
    \/ Respond

Spec == Init /\ [][Next]_vars

---------------------------------------------------------------------------
(* The risk classification on its own: riskLevel applied to two counts     *)

InitClassify ==
    /\ op = "riskLevel"
    /\ request = None
    /\ input \in (0..MaxCount) \X (0..MaxCount)
    /\ now = 0
    /\ queries = <<>>
    /\ fetches = <<>>
    /\ settled = <<>>
    /\ locals = None
    /\ result = NoResult

ApplyRiskLevel ==
    /\ op = "riskLevel"
    /\ locals = None
    /\ locals' = Some(<<riskLevel(input[1]), riskLevel(input[2])>>)
    /\ UNCHANGED <<op, request, input, now, queries, fetches, settled, result>>

SpecClassify == InitClassify /\ [][ApplyRiskLevel]_vars

---------------------------------------------------------------------------
(* The distance calculator on its own: haversine applied to two valid      *)
(* points, in both orders                                                  *)

\* Latitudes in [-90, 90] and longitudes in [-180, 180], in whole degrees.
Latitudes == {-90, -8, 0, 8, 9, 90}

Longitudes == {-180, 0, 3, 180}

Points == Latitudes \X Longitudes

InitHaversine ==
    /\ op = "haversine"
    /\ request = None
    /\ input \in Points \X Points
    /\ now = 0
    /\ queries = <<>>
    /\ fetches = <<>>
    /\ settled = <<>>
    /\ locals = None
    /\ result = NoResult

ApplyHaversine ==
    /\ op = "haversine"
    /\ locals = None
    /\ locals' =
          LET a == input[1]
              b == input[2]
          IN  Some([ab |-> haversine(Some(a[1]), Some(a[2]),
                                     Some(b[1]), Some(b[2])),
                    ba |-> haversine(Some(b[1]), Some(b[2]),
                                     Some(a[1]), Some(a[2]))])
    /\ UNCHANGED <<op, request, input, now, queries, fetches, settled, result>>

SpecHaversine == InitHaversine /\ [][ApplyHaversine]_vars

---------------------------------------------------------------------------
(* Claims                                                                  *)

\* C1: in a report call, once either upstream fetch has rejected, the
\* handler can only fail: it is ready to resume, what it gives is the
\* failure, and never an output object, whichever fetch failed and whether
\* the other one is still pending, fulfilled or rejected.
C1_NoPartialReport ==
    (op = "report" /\ \E i \in 1..Len(fetches) : fetches[i].state = "rejected") =>
        /\ result.kind # "output"
        /\ locals = None
        /\ result.kind = "none" => ENABLED ResumeReport
        /\ result.kind # "none" => result = Failure("UpstreamUnavailable")

\* The seismic request fulfilled first, the volcano request then failed, and
\* the report failed.
C1_Witness ==
    /\ op = "report"
    /\ settled = <<1, 2>>
    /\ fetches[1].state = "fulfilled"
    /\ fetches[2].state = "rejected"
    /\ result.kind = "error"

\* The indices of the volcano records of the answer that lie within the
\* radius of the report's centre.
RecordsWithin ==
    LET data == Val(Val(fetches[2].value))
    IN  { i \in 1..Len(data) :
            LET d == haversine(Some(input.latitude), Some(input.longitude),
                               data[i].latitude, data[i].longitude)
            IN  d # None /\ Val(d) <= input.radiusKm * 1000 }

\* C2: the ranked volcano list of a report has every distance defined and at
\* most the radius, is sorted non-decreasing by distance, and is no longer
\* than 20 nor than the number of records within the radius.
C2_RankedVolcanoes ==
    (op = "report" /\ locals # None) =>
        LET out == Val(locals).nearbyVolcanoes
        IN  /\ \A i \in 1..Len(out) :
                  /\ out[i].distanceKm # None
                  /\ Val(out[i].distanceKm) <= input.radiusKm * 1000
            /\ \A i \in 1..Len(out), j \in 1..Len(out) :
                  i < j => Val(out[i].distanceKm) <= Val(out[j].distanceKm)
            /\ Len(out) <= 20
            /\ Len(out) <= Cardinality(RecordsWithin)

\* A report over more than 20 records within the radius, out of order in the
\* answer: the list is cut to 20.
C2_Witness ==
    /\ op = "report"
    /\ locals # None
    /\ Len(Val(locals).nearbyVolcanoes) = 20
    /\ Cardinality(RecordsWithin) > 20
    /\ \E i \in RecordsWithin :
          i + 1 \in RecordsWithin
          /\ Val(Val(Val(fetches[2].value))[i].latitude)
               > Val(Val(Val(fetches[2].value))[i + 1].latitude)

\* The order MINIMAL < LOW < MODERATE < HIGH.
LevelRank(level) ==
    CASE level = "MINIMAL" -> 0
      [] level = "LOW" -> 1
      [] level = "MODERATE" -> 2
      [] level = "HIGH" -> 3

\* C3: the risk level of n significant events is MINIMAL for 0, LOW for
\* 1..3, MODERATE for 4..10 and HIGH above 10, and is monotonic: m <= n
\* gives a level no higher for m than for n.
C3_RiskThresholds ==
    (op = "riskLevel" /\ locals # None) =>
        LET m == input[1]
            n == input[2]
            levels == Val(locals)
        IN  /\ levels[2] = (IF n = 0 THEN "MINIMAL"
                            ELSE IF n <= 3 THEN "LOW"
                            ELSE IF n <= 10 THEN "MODERATE"
                            ELSE "HIGH")
            /\ m <= n => LevelRank(levels[1]) <= LevelRank(levels[2])

\* The boundary between MODERATE and HIGH: 10 and 11 events classified.
C3_Witness ==
    /\ op = "riskLevel"
    /\ input = <<10, 11>>
    /\ locals = Some(<<"MODERATE", "HIGH">>)

\* The three spatial parameters of a seismic query.
SpatialNames == {"latitude", "longitude", "maxradiuskm"}

\* C4: the query of search carries the spatial filter (latitude, longitude
\* and maxradiuskm, with the caller's point and the radius) if and only if
\* the caller gave both latitude and longitude; with one of the two alone it
\* carries none of the three.
C4_SpatialBothOrNeither ==
    op = "search" =>
        LET p == queries[1].params
        IN  IF request.latitude # None /\ request.longitude # None
            THEN /\ SpatialNames \subseteq DOMAIN p
                 /\ p["latitude"] = Val(request.latitude)
                 /\ p["longitude"] = Val(request.longitude)
                 /\ p["maxradiuskm"] = input.radiusKm
            ELSE SpatialNames \cap DOMAIN p = {}

\* A search with a latitude and no longitude, its query issued and answered.
C4_Witness ==
    /\ op = "search"
    /\ request.latitude # None
    /\ request.longitude = None
    /\ result.kind = "output"

\* s contains sub as a substring, letters compared without their case.
ContainsNoCase(s, sub) ==
    \E k \in 0..(Len(s) - Len(sub)) :
        \A j \in 1..Len(sub) : LowerChar(s[k + j]) = LowerChar(sub[j])

\* C5: in volcanoSearch with both country and name given, every returned
\* record that has a country and a name matches both filters, without case;
\* and a non-empty filter admits no record without the field.
C5_BothFiltersAnd ==
    (op = "volcanoSearch" /\ result.kind = "output"
       /\ request.country # None /\ request.name # None) =>
        LET vs == Val(result.output).volcanoes
        IN  \A i \in 1..Len(vs) :
               /\ vs[i].country # None =>
                     ContainsNoCase(Val(vs[i].country), Val(request.country))
               /\ vs[i].name # None =>
                     ContainsNoCase(Val(vs[i].name), Val(request.name))
               /\ Val(request.country) # <<>> => vs[i].country # None
               /\ Val(request.name) # <<>> => vs[i].name # None

\* A search with both filters non-empty that returns a record and leaves out
\* a record matching the country filter alone.
C5_Witness ==
    /\ op = "volcanoSearch"
    /\ result.kind = "output"
    /\ request.country # None /\ Val(request.country) # <<>>
    /\ request.name # None /\ Val(request.name) # <<>>
    /\ Len(Val(result.output).volcanoes) > 0
    /\ \E i \in 1..Len(Val(Val(fetches[1].value))) :
          LET v == Val(Val(fetches[1].value))[i]
          IN  /\ v.country # None /\ v.vName # None
              /\ ContainsNoCase(Val(v.country), Val(request.country))
              /\ ~ContainsNoCase(Val(v.vName), Val(request.name))

\* The caller's value, or d when the caller gave none.
Given(raw, d) == IF raw = None THEN d ELSE raw[1]

\* The parameters the claim requires of every seismic query.
WindowNames == {"starttime", "orderby", "minmagnitude", "limit"}

\* C6 (as stated): every seismic query issued by any operation, lookup
\* included, has a start time, an ordering key, a minimum magnitude and a
\* maximum result count.
C6_EverySeismicQuery ==
    \A i \in 1..Len(queries) :
        queries[i].host = "earthquake" =>
            WindowNames \subseteq DOMAIN queries[i].params

\* The lookback window of the running call, in days.
WindowDays ==
    CASE op = "overview" -> 1
      [] op = "search" -> Given(request.days, 7)
      [] op = "top" ->
            LET period == Given(request.period, "week")
            IN  IF period = "day" THEN 1 ELSE IF period = "week" THEN 7 ELSE 30
      [] op = "report" -> 30

\* The minimum magnitude of the running call, in tenths: 4 by default, 5 by
\* default in top, 2 in report.
MinMagnitude ==
    CASE op = "overview" -> 40
      [] op = "search" -> Given(request.minMagnitude, 40)
      [] op = "top" -> Given(request.minMagnitude, 50)
      [] op = "report" -> 20

\* The maximum result count of the running call.
ResultLimit ==
    CASE op = "overview" -> 5
      [] op = "search" -> Given(request.limit, 20)
      [] op = "top" -> Given(request.limit, 10)
      [] op = "report" -> 50

\* C6 (amended): every seismic query of overview, search, top and report
\* has a start time (now minus the lookback window), an ordering key, a
\* minimum magnitude (the caller's, or 4, 5 in top, 2 in report) and a
\* maximum result count; the query of lookup has the event id and the
\* format and nothing else.
C6_WindowedQueries ==
    \A i \in 1..Len(queries) :
        queries[i].host = "earthquake" =>
            LET p == queries[i].params
            IN  IF op = "lookup"
                THEN /\ DOMAIN p = {"eventid", "format"}
                     /\ p["eventid"] = request.eventId
                ELSE /\ WindowNames \subseteq DOMAIN p
                     /\ p["starttime"] = now - WindowDays
                     /\ p["orderby"] \in {"time", "magnitude"}
                     /\ p["minmagnitude"] = MinMagnitude
                     /\ p["limit"] = ResultLimit

\* A top call that gives no minimum magnitude: its query asks for M5+.
C6_Witness ==
    /\ op = "top"
    /\ request.minMagnitude = None
    /\ queries[1].params["minmagnitude"] = 50
    /\ fetches[1].state = "fulfilled"

\* The volcano records of the answer to the running call (volcanoSearch has
\* one request, report has the volcano request second).
AnsweredVolcanoes ==
    LET f == fetches[Len(fetches)]
    IN  IF f.state = "fulfilled" /\ Val(f.value) # None
        THEN Val(Val(f.value)) ELSE <<>>

\* The seismic features of the answer to a report.
AnsweredFeatures ==
    IF fetches[1].state = "fulfilled" /\ Val(fetches[1].value).features # None
    THEN Val(Val(fetches[1].value).features) ELSE <<>>

\* C7 (as stated): in volcanoSearch and in report, a result is an output
\* only if no volcano record of the answer lacks its latitude, longitude,
\* country or name and, in report, no seismic event lacks its magnitude.
C7_MalformedFails ==
    (op \in {"volcanoSearch", "report"} /\ result.kind = "output") =>
        /\ \A i \in 1..Len(AnsweredVolcanoes) :
              LET v == AnsweredVolcanoes[i]
              IN  /\ v.latitude # None /\ v.longitude # None
                  /\ v.country # None /\ v.vName # None
        /\ op = "report" =>
              \A i \in 1..Len(AnsweredFeatures) : AnsweredFeatures[i].mag # None

\* An answer of a report lacks a structure the handler dereferences: the
\* volcano list, the features list, the metadata, the properties of a
\* feature, or the time or geometry of one of the first 15 features.
ReportStructureMissing ==
    LET quakes == Val(fetches[1].value)
        fs == AnsweredFeatures
    IN  \/ Val(fetches[2].value) = None
        \/ quakes.features = None
        \/ quakes.count = None
        \/ \E i \in 1..Len(fs) : ~fs[i].hasProps
        \/ \E i \in 1..Len(fs) :
              i <= 15 /\ (fs[i].time = None \/ ~fs[i].hasGeom)

\* C7 (amended): an answer that lacks a structure the handler dereferences
\* fails the operation, and nothing else about the answer does; a record
\* that lacks a leaf field is passed over in an output: report lists no
\* volcano without coordinates and counts no event without magnitude, and
\* volcanoSearch returns no record without the field of a non-empty filter.
C7_MissingStructureFails ==
    /\ (op = "report" /\ result.kind # "none"
          /\ \A i \in 1..2 : fetches[i].state = "fulfilled") =>
          /\ result.kind = "error" <=> ReportStructureMissing
          /\ result.kind = "output" =>
                /\ \A i \in 1..Len(Val(locals).nearbyVolcanoes) :
                      LET v == Val(locals).nearbyVolcanoes[i].v
                      IN  v.latitude # None /\ v.longitude # None
                /\ \A i \in 1..Len(Val(locals).significantQuakes) :
                      Val(locals).significantQuakes[i].mag # None
    /\ (op = "volcanoSearch" /\ result.kind # "none"
          /\ fetches[1].state = "fulfilled") =>
          /\ result.kind = "error" <=> Val(fetches[1].value) = None
          /\ result.kind = "output" =>
                \A i \in 1..Len(Val(result.output).volcanoes) :
                   LET v == Val(result.output).volcanoes[i]
                   IN  /\ Truthy(input.country) => v.country # None
                       /\ Truthy(input.name) => v.name # None

\* A report that succeeds over a volcano record without coordinates and a
\* seismic event without magnitude: neither is listed or counted.
C7_Witness ==
    /\ op = "report"
    /\ result.kind = "output"
    /\ \E i \in 1..Len(AnsweredVolcanoes) : AnsweredVolcanoes[i].latitude = None
    /\ \E i \in 1..Len(AnsweredFeatures) : AnsweredFeatures[i].mag = None
    /\ Val(result.output).riskAssessment.nearbyVolcanoes = 0
    /\ Val(result.output).riskAssessment.significantQuakes = 0

\* The positions of the significant events (magnitude >= 4) in the answer.
SignificantPositions ==
    { i \in 1..Len(AnsweredFeatures) :
        AnsweredFeatures[i].mag # None /\ Val(AnsweredFeatures[i].mag) >= 40 }

\* C8: in the output of a report, significantQuakes is the number of events
\* of the whole answer with magnitude >= 4, the level is the classification
\* of that number, recentEarthquakes is the first min(15, n) events in the
\* order of the answer, and the nearbyVolcanoes count is the length of the
\* nearbyVolcanoes list; an answer of 0 events gives an output of level
\* MINIMAL, not a failure, over the records within the radius, 20 at most.
C8_RiskFromFullSet ==
    /\ (op = "report" /\ result.kind = "output") =>
          LET o == Val(result.output)
              n == Len(AnsweredFeatures)
              k == Cardinality(SignificantPositions)
          IN  /\ o.riskAssessment.significantQuakes = k
              /\ k <= n
              /\ o.riskAssessment.level =
                    (IF k > 10 THEN "HIGH" ELSE IF k > 3 THEN "MODERATE"
                     ELSE IF k > 0 THEN "LOW" ELSE "MINIMAL")
              /\ Len(o.recentEarthquakes) = (IF n < 15 THEN n ELSE 15)
              /\ \A i \in 1..Len(o.recentEarthquakes) :
                    /\ o.recentEarthquakes[i].id = AnsweredFeatures[i].id
                    /\ o.recentEarthquakes[i].magnitude = AnsweredFeatures[i].mag
              /\ o.riskAssessment.nearbyVolcanoes = Len(o.nearbyVolcanoes)
    /\ (/\ op = "report"
        /\ result.kind # "none"
        /\ \A i \in 1..2 : fetches[i].state = "fulfilled"
        /\ Val(fetches[1].value).features = Some(<<>>)
        /\ Val(fetches[1].value).count # None
        /\ Val(fetches[2].value) # None) =>
          /\ result.kind = "output"
          /\ Val(result.output).riskAssessment.level = "MINIMAL"
          /\ Val(result.output).riskAssessment.nearbyVolcanoes
                = (IF Cardinality(RecordsWithin) < 20
                   THEN Cardinality(RecordsWithin) ELSE 20)

\* A report over more events than the preview holds, all of them
\* significant: the count exceeds the length of the preview.
C8_Witness ==
    /\ op = "report"
    /\ result.kind = "output"
    /\ Len(AnsweredFeatures) > 15
    /\ Cardinality(SignificantPositions) = Len(AnsweredFeatures)
    /\ Len(Val(result.output).recentEarthquakes) = 15
    /\ Val(result.output).riskAssessment.nearbyVolcanoes > 0

\* C10: a report call has both requests in flight from its first state on,
\* so before the handler resumes from any await; it gives an output only
\* once both have been fulfilled; and the output is then the one function
\* of the two bodies (seismic first, volcano second), in whichever order
\* they arrived.
C10_BothIssuedThenJoined ==
    op = "report" =>
        /\ Len(queries) = 2
        /\ Len(fetches) = 2
        /\ queries[1].host = "earthquake"
        /\ queries[2].host = "volcano"
        /\ settled = <<>> => \A i \in 1..2 : fetches[i].state = "pending"
        /\ result.kind = "output" =>
              /\ \A i \in 1..2 : fetches[i].state = "fulfilled"
              /\ Len(settled) = 2
              /\ result = reportBody(input, Val(fetches[1].value),
                                     Val(fetches[2].value), now).result

\* A report whose volcano answer arrived before its seismic answer, and
\* which gave an output over both.
C10_Witness ==
    /\ op = "report"
    /\ settled = <<2, 1>>
    /\ result.kind = "output"
    /\ Len(AnsweredFeatures) > 0
    /\ Len(Val(result.output).nearbyVolcanoes) > 0

\* C9 (as stated): for all valid points the distance of a point to itself is
\* 0, the distance is symmetric, and the result is never NaN (the argument
\* of the inverse-trigonometric step stays in [0, 1]).
C9_ZeroSymmetricNeverNaN ==
    (op = "haversine" /\ locals # None) =>
        LET d == Val(locals)
        IN  /\ d.ab = d.ba
            /\ (input[1] = input[2] => d.ab = Some(0))
            /\ d.ab # None

\* The parts of C9 the code does satisfy: zero on identical points and
\* symmetry (a NaN one way is a NaN the other way).
C9_ZeroAndSymmetric ==
    (op = "haversine" /\ locals # None) =>
        LET d == Val(locals)
        IN  /\ d.ab = d.ba
            /\ (input[1] = input[2] => d.ab = Some(0))

====
